---- MODULE Spec2Model ----
(***************************************************************************)
(* Model of packages/graphic-walker/src/utils/workflow.ts: the compiler    *)
(* from a view specification to a query workflow (toWorkflow), its helpers *)
(* (walkExpression, deduper, treeShake, processExpression) and the two     *)
(* merge operations (addTransformForQuery, addFilterForQuery).             *)
(*                                                                         *)
(* Conventions.  An optional JavaScript value is a sequence of length at   *)
(* most one: <<>> is undefined, <<v>> is v.  An absent or empty            *)
(* aggregation name is the falsy string "".  A JavaScript number is        *)
(* [t |-> "number", v |-> <<k>>], NaN being [t |-> "number", v |-> <<>>];  *)
(* a JavaScript string is [t |-> "string", v |-> "..."].  Object identity  *)
(* of a view field is its oid.                                             *)
(***************************************************************************)
EXTENDS Integers, Sequences, FiniteSets, TLC

VARIABLES
    pc,              \* position: "start" before the call, "done" after it
    computedFieldsIn,\* treeShake: the pool of computed-field definitions
    viewKeysIn,      \* treeShake: the used field identifiers
    shaken,          \* treeShake: the returned definitions
    expIn,           \* processExpression: the argument
    expOut,          \* processExpression: the outcome
    args,            \* toWorkflow: the arguments
    locals,          \* toWorkflow: viewDimensions, viewMeasures, aggergated
    slots,           \* toWorkflow: the six optional steps before filter(Boolean)
    query,           \* the current IDataQueryPayload
    input,           \* the payload handed to the last merge call
    call,            \* the last merge call: its function and argument
    ncalls           \* number of merge calls made

vars == <<pc, computedFieldsIn, viewKeysIn, shaken, expIn, expOut, args, locals,
          slots, query, input, call, ncalls>>

\* ------------------------------------------------------------------ bounds

MaxPool == 3
MaxUsed == 2
MaxDims == 2
MaxMeas == 2
MaxFolds == 2
MaxFilters == 2
MaxCalls == 2

\* ----------------------------------------------------------------- helpers

Range(s) == {s[i] : i \in 1..Len(s)}

SeqsUpTo(S, n) == UNION {[1..k -> S] : k \in 0..n}

None == <<>>
Some(v) == <<v>>

\* ------------------------------------------------------------- expressions

FieldParam(k) == [type |-> "field", value |-> k]
ExprParam(e) == [type |-> "expression", value |-> e]
ValueParam(v) == [type |-> "value", value |-> v]
MapParam(m) == [type |-> "map", value |-> m]

Expr(op, params) == [op |-> op, params |-> params]

\* walkExpression(expression, each): the sequence of fields `each` is called
\* with, in call order
RECURSIVE walkExpression(_)
walkExpression(expression) ==
    LET visit[i \in 0..Len(expression.params)] ==
            IF i = 0 THEN <<>>
            ELSE LET param == expression.params[i] IN
                 visit[i - 1] \o
                 (IF param.type = "field" THEN <<param.value>>
                  ELSE IF param.type = "expression" THEN walkExpression(param.value)
                  ELSE <<>>)
    IN visit[Len(expression.params)]

\* ------------------------------------------------------------------ deduper

\* a faulty variant of deduper: every item is kept
deduperKeepAll(items, keyF) == items

\* new Map(); items.forEach(x => map.set(keyF(x), x)); [...map.values()]
\* A Map keeps a key at the position of its first insertion and the value of
\* its last one.  keyF is a function value over the items.
deduper(items, keyF) ==
    LET firstAt(i) == \A j \in 1..(i - 1) : keyF[items[j]] # keyF[items[i]]
        lastOf(i) == CHOOSE j \in i..Len(items) :
                        /\ keyF[items[j]] = keyF[items[i]]
                        /\ \A l \in (j + 1)..Len(items) : keyF[items[l]] # keyF[items[i]]
        pick[i \in 0..Len(items)] ==
            IF i = 0 THEN <<>>
            ELSE IF firstAt(i) THEN Append(pick[i - 1], items[lastOf(i)])
            ELSE pick[i - 1]
    IN pick[Len(items)]

\* ---------------------------------------------------------------- treeShake

\* the while loop of treeShake; result is never assigned inside it
RECURSIVE treeShakeLoop(_, _, _)
treeShakeLoop(result, currentFields, rest) ==
    IF Len(currentFields) > 0 /\ Len(rest) > 0
    THEN LET dependencies ==
                 UNION {Range(walkExpression(f.expression)) : f \in Range(currentFields)}
             nextFields == SelectSeq(rest, LAMBDA f : f.key \in dependencies)
         IN treeShakeLoop(result, nextFields,
                          SelectSeq(rest, LAMBDA f : f.key \notin dependencies))
    ELSE result

\* treeShake(computedFields, viewKeys); viewKeys is the set new Set(viewKeys)
treeShake(computedFields, viewKeys) ==
    LET usedFields == viewKeys
        result == SelectSeq(computedFields, LAMBDA f : f.key \in usedFields)
        rest == SelectSeq(computedFields, LAMBDA f : f.key \notin usedFields)
    IN treeShakeLoop(result, result, rest)

\* -------------------------------------------------------- processExpression

EmptyColor == 255

\* a faulty variant of PaintDict: the reserved entry is not added
PaintDictNoReserve(m) == m.dict

\* const dict = {...x.value.dict, '255': {name: ''}}
PaintDict(m) ==
    [i \in (DOMAIN m.dict) \cup {EmptyColor} |->
        IF i = EmptyColor THEN [name |-> ""] ELSE m.dict[i]]

\* dict[i].name throws a TypeError when dict[i] is undefined
PaintThrows(m) == \E i \in Range(m.usedColor) : i \notin DOMAIN PaintDict(m)

\* Object.fromEntries(usedColor.map(i => [i, {name: dict[i].name}]))
PaintParam(x) ==
    IF x.type = "map"
    THEN MapParam([x |-> x.value.x, y |-> x.value.y,
                   domainX |-> x.value.domainX, domainY |-> x.value.domainY,
                   map |-> x.value.map,
                   dict |-> [i \in Range(x.value.usedColor) |->
                                [name |-> PaintDict(x.value)[i].name]],
                   mapwidth |-> x.value.mapwidth])
    ELSE x

\* processExpression(exp): [threw |-> TRUE] or [threw |-> FALSE, value |-> exp']
processExpression(exp) ==
    IF exp.op = "paint"
    THEN IF \E i \in 1..Len(exp.params) :
               exp.params[i].type = "map" /\ PaintThrows(exp.params[i].value)
         THEN [threw |-> TRUE]
         ELSE [threw |-> FALSE,
               value |-> [op |-> exp.op,
                          params |-> [i \in 1..Len(exp.params) |-> PaintParam(exp.params[i])]]]
    ELSE [threw |-> FALSE, value |-> exp]

\* ------------------------------------------------- inputs of the two helpers

ShakeKeys == {"a", "b", "c"}

ShakeExprs ==
    { Expr("one", <<>>),
      Expr("log", <<FieldParam("a")>>),
      Expr("log", <<FieldParam("b")>>),
      Expr("bin", <<ExprParam(Expr("log", <<FieldParam("c")>>))>>),
      Expr("expr", <<ValueParam("1"), FieldParam("c"),
                     ExprParam(Expr("log", <<FieldParam("b")>>))>>) }

ShakeDefs == [key : ShakeKeys, expression : ShakeExprs]

Colors == {1, 2, EmptyColor}

ColorName(i) == IF i = 1 THEN "A" ELSE IF i = 2 THEN "B" ELSE "X"

PaintMaps ==
    { [x |-> "fx", y |-> "fy", domainX |-> <<0, 1>>, domainY |-> <<0, 1>>,
       map |-> "bits", mapwidth |-> 4,
       dict |-> [i \in D |-> [name |-> ColorName(i)]],
       usedColor |-> u] : D \in SUBSET Colors, u \in SeqsUpTo(Colors, MaxUsed) }

PaintExprs ==
    { Expr(op, ps) : op \in {"paint", "expr"},
                     ps \in { <<MapParam(m)>> : m \in PaintMaps }
                            \cup { <<FieldParam("fx"), MapParam(m)>> : m \in PaintMaps } }

\* --------------------------------------------------- treeShake on its own

Idle == <<>>

InitShake ==
    /\ pc = "start"
    /\ computedFieldsIn \in SeqsUpTo(ShakeDefs, MaxPool)
    /\ viewKeysIn \in SUBSET ShakeKeys
    /\ shaken = Idle
    /\ expIn = Idle /\ expOut = Idle /\ args = Idle /\ locals = Idle
    /\ slots = Idle /\ query = Idle /\ input = Idle /\ call = Idle /\ ncalls = 0

TreeShake ==
    /\ pc = "start"
    /\ pc' = "done"
    /\ shaken' = treeShake(computedFieldsIn, viewKeysIn)
    /\ UNCHANGED <<computedFieldsIn, viewKeysIn, expIn, expOut, args, locals,
                   slots, query, input, call, ncalls>>

NextShake == TreeShake

SpecShake == InitShake /\ [][NextShake]_vars

\* the field identifiers reachable from the used set through the pool's
\* expressions, at any depth
RECURSIVE Reach(_, _, _)
Reach(pool, keys, n) ==
    IF n = 0 THEN keys
    ELSE Reach(pool,
               keys \cup UNION {Range(walkExpression(f.expression)) :
                                   f \in {g \in Range(pool) : g.key \in keys}},
               n - 1)

Required(pool, used) == {f \in Range(pool) : f.key \in Reach(pool, used, Len(pool))}

\* C1 (as claimed): treeShake returns a subset of the pool that holds every
\* definition whose key is used, every definition reachable from the used set
\* through expression field references at any depth, and nothing else.
C1_TreeShakeIsClosure ==
    pc = "done" =>
        /\ Range(shaken) \subseteq Range(computedFieldsIn)
        /\ \A f \in Range(computedFieldsIn) : f.key \in viewKeysIn => f \in Range(shaken)
        /\ Required(computedFieldsIn, viewKeysIn) \subseteq Range(shaken)
        /\ Range(shaken) \subseteq Required(computedFieldsIn, viewKeysIn)

\* what the code does return: exactly the directly used definitions
C1_DirectOnly ==
    pc = "done" => shaken = SelectSeq(computedFieldsIn, LAMBDA f : f.key \in viewKeysIn)

\* ------------------------------------------- processExpression on its own

InitPaint ==
    /\ pc = "start"
    /\ expIn \in PaintExprs
    /\ expOut = Idle
    /\ computedFieldsIn = Idle /\ viewKeysIn = Idle /\ shaken = Idle
    /\ args = Idle /\ locals = Idle
    /\ slots = Idle /\ query = Idle /\ input = Idle /\ call = Idle /\ ncalls = 0

ProcessExpression ==
    /\ pc = "start"
    /\ pc' = "done"
    /\ expOut' = processExpression(expIn)
    /\ UNCHANGED <<computedFieldsIn, viewKeysIn, shaken, expIn, args, locals,
                   slots, query, input, call, ncalls>>

NextPaint == ProcessExpression

SpecPaint == InitPaint /\ [][NextPaint]_vars

MapParamsAt(e) == {i \in 1..Len(e.params) : e.params[i].type = "map"}

\* every used colour of every map parameter has a name to look up
PaintDefined(e) ==
    \A i \in MapParamsAt(e) :
        Range(e.params[i].value.usedColor) \subseteq
            (DOMAIN e.params[i].value.dict) \cup {EmptyColor}

Num(k) == [t |-> "number", v |-> <<k>>]
NaN == [t |-> "number", v |-> <<>>]
Str(x) == [t |-> "string", v |-> x]

\* Number(x) on the values the model uses
ToNumber(x) ==
    IF x.t = "number" THEN x
    ELSE CASE x.v = "1" -> Num(1)
           [] x.v = "20" -> Num(20)
           [] x.v = "" -> Num(0)
           [] x.v = "x" -> NaN

\* new Date(x).getTime() on the values the model uses
DateGetTime(x) ==
    IF x.t = "number" THEN x
    ELSE CASE x.v = "1970-01-01" -> Num(0)
           [] x.v = "1970-01-02" -> Num(86400000)
           [] x.v = "bad" -> NaN

MEA_KEY_ID == "gw_mea_key_fid"
MEA_VAL_ID == "gw_mea_val_fid"

Undefined == "undefined"

\* getMeaAggKey(meaKey, agg)
getMeaAggKey(meaKey, agg) == IF agg = "" THEN meaKey ELSE meaKey \o "_" \o agg

\* getFilterMeaAggKey(field)
getFilterMeaAggKey(f) ==
    IF f.enableAgg /\ f.aggName # "" THEN getMeaAggKey(f.fid, f.aggName) ELSE f.fid

Field(oid, fid, analyticType, aggName) ==
    [oid |-> oid, fid |-> fid, analyticType |-> analyticType, aggName |-> aggName,
     computed |-> FALSE, expression |-> None]

Computed(oid, fid, analyticType, expression) ==
    [oid |-> oid, fid |-> fid, analyticType |-> analyticType, aggName |-> "",
     computed |-> TRUE, expression |-> Some(expression)]

\* ---------------------------------------------------------------- toWorkflow

FindFid(fields, fid) ==
    IF \E i \in 1..Len(fields) : fields[i].fid = fid
    THEN Some(fields[CHOOSE i \in 1..Len(fields) :
                        /\ fields[i].fid = fid
                        /\ \A j \in 1..(i - 1) : fields[j].fid # fid])
    ELSE None

hasFold(a) ==
    /\ FindFid(a.viewDimensionsRaw, MEA_KEY_ID) # None
    /\ FindFid(a.viewMeasuresRaw, MEA_VAL_ID) # None

\* a faulty variant of newFields: a folded field keeps its own aggregation function
newFieldsOwnAgg(a) ==
    [i \in 1..Len(a.folds) |->
        LET x == FindFid(a.allFields, a.folds[i])
        IN IF x = None
           THEN [oid |-> 100 + i, fid |-> Undefined, analyticType |-> Undefined,
                 aggName |-> "", computed |-> FALSE, expression |-> None]
           ELSE [x[1] EXCEPT !.oid = 100 + i]]

\* folds.map(k => allFields.find(x => x.fid === k)!).map(x => ({...x, aggName}))
\*      .filter(Boolean): a clone is a new object, truthy also when the lookup
\* gave undefined
newFields(a) ==
    LET aggName == FindFid(a.viewMeasuresRaw, MEA_VAL_ID)[1].aggName
    IN [i \in 1..Len(a.folds) |->
           LET x == FindFid(a.allFields, a.folds[i])
           IN IF x = None
              THEN [oid |-> 100 + i, fid |-> Undefined, analyticType |-> Undefined,
                    aggName |-> aggName, computed |-> FALSE, expression |-> None]
              ELSE [x[1] EXCEPT !.oid = 100 + i, !.aggName = aggName]]

viewDimensions(a) ==
    SelectSeq(a.viewDimensionsRaw, LAMBDA x : x.fid # MEA_KEY_ID)
    \o (IF hasFold(a)
        THEN SelectSeq(newFields(a), LAMBDA x : x.analyticType = "dimension")
        ELSE <<>>)

viewMeasures(a) ==
    SelectSeq(a.viewMeasuresRaw, LAMBDA x : x.fid # MEA_VAL_ID)
    \o (IF hasFold(a)
        THEN SelectSeq(newFields(a), LAMBDA x : x.analyticType = "measure")
        ELSE <<>>)

\* createFilter(f): the normalized filter
createFilter(f) ==
    LET fid == getFilterMeaAggKey(f)
        rule == f.rule[1]
    IN IF rule.type = "one of"
       THEN [fid |-> fid, rule |-> [type |-> "one of", value |-> rule.value]]
       ELSE IF rule.type = "temporal range"
       THEN [fid |-> fid,
             rule |-> [type |-> "temporal range",
                       value |-> <<DateGetTime(rule.value[1]), DateGetTime(rule.value[2])>>]]
       ELSE IF rule.type = "not in"
       THEN [fid |-> fid, rule |-> [type |-> "not in", value |-> rule.value]]
       ELSE IF rule.type = "range"
       THEN [fid |-> fid,
             rule |-> [type |-> "range",
                       value |-> <<ToNumber(rule.value[1]), ToNumber(rule.value[2])>>]]
       ELSE [fid |-> fid, rule |-> rule]

CreateFilters(fs) == [i \in 1..Len(fs) |-> createFilter(fs[i])]

filters(a) ==
    CreateFilters(SelectSeq(a.viewFilters,
                            LAMBDA f : ~f.computed /\ f.rule # None /\ ~f.enableAgg))

\* viewKeys when treeShake is called: the view's and the filters' fids, and the
\* fids createFilter has added so far
viewKeysAtShake(a) ==
    {f.fid : f \in Range(viewDimensions(a)) \cup Range(viewMeasures(a))}
    \cup {f.fid : f \in Range(a.viewFilters)}
    \cup {f.fid : f \in Range(filters(a))}

ComputedPool(a) == SelectSeq(a.allFields, LAMBDA f : f.computed /\ f.expression # None)

\* processExpression throws on some computed field
toWorkflowThrows(a) ==
    \E f \in Range(ComputedPool(a)) : processExpression(f.expression[1]).threw

computedFields(a) ==
    treeShake([i \in 1..Len(ComputedPool(a)) |->
                  [key |-> ComputedPool(a)[i].fid,
                   expression |-> processExpression(ComputedPool(a)[i].expression[1]).value]],
              viewKeysAtShake(a))

\* a faulty variant of computedFilters: enableAgg is not looked at
computedFiltersAnyScope(a) ==
    CreateFilters(SelectSeq(a.viewFilters, LAMBDA f : f.computed /\ f.rule # None))

computedFilters(a) ==
    CreateFilters(SelectSeq(a.viewFilters,
                            LAMBDA f : f.computed /\ f.rule # None /\ ~f.enableAgg))

aggergatedFilter(a) ==
    SelectSeq(a.viewFilters, LAMBDA f : f.enableAgg /\ f.aggName # "" /\ f.rule # None)

aggregateOn(a) ==
    [i \in 1..Len(SelectSeq(viewMeasures(a), LAMBDA f : f.aggName # "")) |->
        LET f == SelectSeq(viewMeasures(a), LAMBDA g : g.aggName # "")[i]
        IN <<f.fid, f.aggName>>]
    \o [i \in 1..Len(aggergatedFilter(a)) |->
           <<aggergatedFilter(a)[i].fid, aggergatedFilter(a)[i].aggName>>]

\* a faulty variant of aggergated: a view without measures aggregates even without a
\* dimension
aggergatedWithoutDimensions(a) ==
    a.defaultAggregated /\ (Len(aggregateOn(a)) # 0 \/ Len(viewMeasures(a)) = 0)

aggergated(a) ==
    a.defaultAggregated /\ (Len(aggregateOn(a)) # 0
                            \/ (Len(viewMeasures(a)) = 0 /\ Len(viewDimensions(a)) > 0))

\* [...new Set(items)]: one entry per object, at its first position
UniqueObjects(items) ==
    SelectSeq([i \in 1..Len(items) |->
                  IF \A j \in 1..(i - 1) : items[j].oid # items[i].oid
                  THEN Some(items[i]) ELSE None],
              LAMBDA o : o # None)

AggMeasures(a) ==
    LET fs == viewMeasures(a) \o aggergatedFilter(a)
    IN [i \in 1..Len(fs) |->
           [field |-> fs[i].fid, agg |-> fs[i].aggName,
            asFieldKey |-> getMeaAggKey(fs[i].fid, fs[i].aggName)]]

viewQueryWorkflow(a) ==
    IF aggergated(a)
    THEN [type |-> "view",
          query |-> <<[op |-> "aggregate",
                       groupBy |->
                           LET ids == [i \in 1..Len(viewDimensions(a)) |-> viewDimensions(a)[i].fid]
                           IN deduper(ids, [x \in Range(ids) |-> x]),
                       measures |->
                           deduper(AggMeasures(a),
                                   [x \in Range(AggMeasures(a)) |-> x.asFieldKey])]>>]
    ELSE [type |-> "view",
          query |-> <<[op |-> "raw",
                       fields |->
                           LET fs == UniqueObjects(viewDimensions(a) \o viewMeasures(a))
                           IN [i \in 1..Len(fs) |-> fs[i][1].fid]]>>]

\* the JavaScript truth value of: limit && limit !== -1
LimitGiven(limit) == limit # None /\ limit[1] # 0 /\ limit[1] # -1

sortBy(a) ==
    [i \in 1..Len(viewMeasures(a)) |->
        IF aggergated(a)
        THEN getMeaAggKey(viewMeasures(a)[i].fid, viewMeasures(a)[i].aggName)
        ELSE viewMeasures(a)[i].fid]

\* the six steps of toWorkflow, each present or null
toWorkflowSlots(a) ==
    [filterWorkflow |->
         IF Len(filters(a)) # 0
         THEN Some([type |-> "filter", filters |-> filters(a)]) ELSE None,
     transformWorkflow |->
         IF Len(computedFields(a)) # 0
         THEN Some([type |-> "transform", transform |-> computedFields(a)]) ELSE None,
     computedWorkflow |->
         IF Len(computedFilters(a)) # 0
         THEN Some([type |-> "filter", filters |-> computedFilters(a)]) ELSE None,
     viewQueryWorkflow |-> Some(viewQueryWorkflow(a)),
     aggFilterWorkflow |->
         IF aggergated(a) /\ Len(viewDimensions(a)) > 0 /\ Len(aggergatedFilter(a)) > 0
         THEN Some([type |-> "filter", filters |-> CreateFilters(aggergatedFilter(a))])
         ELSE None,
     sortWorkflow |->
         IF a.sort # "none" /\ LimitGiven(a.limit)
         THEN Some([type |-> "sort", by |-> sortBy(a), sort |-> a.sort]) ELSE None]

\* [filterWorkflow, ..., sortWorkflow].filter(Boolean)
StepsOf(s) ==
    s.filterWorkflow \o s.transformWorkflow \o s.computedWorkflow
    \o s.viewQueryWorkflow \o s.aggFilterWorkflow \o s.sortWorkflow

toWorkflow(a) == StepsOf(toWorkflowSlots(a))

\* ------------------------------------------------------ inputs of toWorkflow

D1 == Field(1, "d1", "dimension", "")
KeyField == Field(2, MEA_KEY_ID, "dimension", "")
M1 == Field(3, "m1", "measure", "sum")
M2 == Field(4, "m2", "measure", "")
ValField == Field(5, MEA_VAL_ID, "measure", "sum")
M1Twin == Field(6, "m1", "measure", "sum")

C1Field == Computed(7, "c1", "measure", Expr("log", <<FieldParam("c2")>>))
C2Field == Computed(8, "c2", "measure", Expr("one", <<>>))

PaintMapOf(dict, usedColor) ==
    [x |-> "d1", y |-> "m1", domainX |-> <<0, 1>>, domainY |-> <<0, 1>>,
     map |-> "bits", mapwidth |-> 4, dict |-> dict, usedColor |-> usedColor]

C3Field ==
    Computed(9, "c3", "dimension",
             Expr("paint", <<MapParam(PaintMapOf([i \in {1, 2} |-> [name |-> ColorName(i)]],
                                                 <<1, EmptyColor>>))>>))

C3Broken ==
    Computed(9, "c3", "dimension",
             Expr("paint", <<MapParam(PaintMapOf([i \in {1} |-> [name |-> ColorName(i)]],
                                                 <<2>>))>>))

DimPool == {D1, KeyField}
MeaPool == {M1, M2, M1Twin}
FoldIds == {"d1", "m2", "zz", MEA_VAL_ID}

FieldsFull == <<D1, M1, M2, KeyField, ValField, C1Field, C2Field, C3Field>>
FieldsPlain == <<D1, M1>>
FieldsBroken == <<D1, M1, C3Broken>>

RuleOneOf == [type |-> "one of", value |-> <<Str("a"), Str("b")>>]
RuleNotIn == [type |-> "not in", value |-> <<Str("a")>>]
RuleRange == [type |-> "range", value |-> <<Str("1"), Str("x")>>]
RuleTemporal == [type |-> "temporal range", value |-> <<Str("1970-01-02"), Str("bad")>>]
RuleUnknown == [type |-> "regexp", value |-> <<Str("a")>>]

\* a filter on the computed field c1 when flagged computed, on m1 otherwise
Filter(computed, enableAgg, aggName, rule) ==
    [fid |-> IF computed THEN "c1" ELSE "m1", computed |-> computed,
     enableAgg |-> enableAgg, aggName |-> aggName, rule |-> rule]

FlagFilters(rules) ==
    { Filter(c, e, g, r) : c \in BOOLEAN, e \in BOOLEAN, g \in {"", "sum"}, r \in rules }

PlainFilter == Filter(FALSE, FALSE, "", Some(RuleOneOf))
ComputedFilter == Filter(TRUE, FALSE, "", Some(RuleRange))
AggFilter == Filter(FALSE, TRUE, "sum", Some(RuleRange))
AggFilterNoName == Filter(FALSE, TRUE, "", Some(RuleRange))
AggFilterOnC1 == Filter(TRUE, TRUE, "sum", Some(RuleOneOf))

Limits == {None, <<0>>, <<-1>>, <<-2>>, <<10>>}
Sorts == {"none", "ascending", "descending"}

Args(fs, all, ds, ms, agg, sort, folds, limit) ==
    [viewFilters |-> fs, allFields |-> all, viewDimensionsRaw |-> ds,
     viewMeasuresRaw |-> ms, defaultAggregated |-> agg, sort |-> sort,
     folds |-> folds, limit |-> limit]

\* fold expansion: the fold list varies, with one, both or no sentinel
FoldArgs ==
    { Args(<<>>, FieldsFull, ds, ms, TRUE, "none", folds, None) :
        ds \in {<<>>, <<KeyField>>, <<D1, KeyField>>},
        ms \in {<<>>, <<ValField>>, <<M1, ValField>>, <<M2>>},
        folds \in SeqsUpTo(FoldIds, MaxFolds) }

\* the aggregation decision and the steps after the view: the view lists vary
AggArgs ==
    { Args(fs, FieldsFull, ds, ms, agg, sl[1], <<>>, sl[2]) :
        fs \in {<<>>, <<AggFilter>>, <<AggFilterNoName>>, <<PlainFilter>>,
                <<AggFilter, AggFilterOnC1>>},
        ds \in SeqsUpTo(DimPool, MaxDims), ms \in SeqsUpTo(MeaPool, MaxMeas),
        agg \in BOOLEAN, sl \in {<<"none", None>>, <<"ascending", <<10>>>>} }

\* the sort step: every direction and every kind of limit
SortArgs ==
    { Args(<<>>, FieldsPlain, ds, ms, agg, sort, <<>>, limit) :
        ds \in {<<>>, <<D1>>}, ms \in {<<>>, <<M1>>, <<M2>>},
        agg \in BOOLEAN, sort \in Sorts, limit \in Limits }

\* filter routing: the filters' flags vary
RouteArgs ==
    { Args(fs, FieldsFull, ds, <<M1>>, agg, "none", <<>>, None) :
        fs \in SeqsUpTo(FlagFilters({None, Some(RuleOneOf)}), MaxFilters)
               \cup {<<PlainFilter, ComputedFilter, AggFilter,
                        Filter(FALSE, FALSE, "", None)>>},
        ds \in {<<>>, <<D1>>}, agg \in BOOLEAN }

\* filter normalization: every kind of rule
RuleArgs ==
    { Args(<<f>>, all, <<D1>>, <<M1>>, TRUE, "none", <<>>, None) :
        f \in FlagFilters({Some(RuleOneOf), Some(RuleNotIn), Some(RuleRange),
                           Some(RuleTemporal), Some(RuleUnknown)}),
        all \in {FieldsFull, FieldsPlain, FieldsBroken} }

WorkflowArgs == FoldArgs \cup AggArgs \cup SortArgs \cup RouteArgs \cup RuleArgs

\* ------------------------------------------------------------ the operations

InitWith(argSet) ==
    /\ pc = "start"
    /\ args \in argSet
    /\ locals = Idle /\ slots = Idle /\ query = Idle
    /\ input = Idle /\ call = Idle /\ ncalls = 0
    /\ computedFieldsIn = Idle /\ viewKeysIn = Idle /\ shaken = Idle
    /\ expIn = Idle /\ expOut = Idle

\* one call toWorkflow(a), wrapped in the payload [workflow, limit]
Compile(a, limit) ==
    IF toWorkflowThrows(a)
    THEN /\ pc' = "threw"
         /\ UNCHANGED <<locals, slots, query>>
    ELSE /\ pc' = "done"
         /\ locals' = [viewDimensions |-> viewDimensions(a),
                       viewMeasures |-> viewMeasures(a),
                       aggergated |-> aggergated(a),
                       sort |-> a.sort,
                       limit |-> a.limit]
         /\ slots' = toWorkflowSlots(a)
         /\ query' = [workflow |-> toWorkflow(a), limit |-> limit]

ToWorkflow ==
    /\ pc = "start"
    /\ Compile(args, None)
    /\ UNCHANGED <<computedFieldsIn, viewKeysIn, shaken, expIn, expOut, args,
                   input, call, ncalls>>

\* chartToWorkflow: the decoded chart gives toWorkflow's arguments; the view
\* fields are split by analytic type and an absent limit becomes -1
ChartToWorkflow ==
    /\ pc = "start"
    /\ LET viewEncodingFields == args.viewDimensionsRaw \o args.viewMeasuresRaw
           limit == IF args.limit = None THEN -1 ELSE args.limit[1]
       IN Compile([args EXCEPT
                      !.viewDimensionsRaw =
                          SelectSeq(viewEncodingFields, LAMBDA x : x.analyticType = "dimension"),
                      !.viewMeasuresRaw =
                          SelectSeq(viewEncodingFields, LAMBDA x : x.analyticType = "measure"),
                      !.limit = Some(limit)],
                  IF limit > 0 THEN Some(limit) ELSE None)
    /\ UNCHANGED <<computedFieldsIn, viewKeysIn, shaken, expIn, expOut, args,
                   input, call, ncalls>>

Init == InitWith(WorkflowArgs)

Next == ToWorkflow \/ ChartToWorkflow

Spec == Init /\ [][Next]_vars

\* ---------------------------------------------------- claims on toWorkflow

ViewQuery == slots.viewQueryWorkflow[1].query[1]

AggScoped(f) == f.enableAgg /\ f.aggName # "" /\ f.rule # None

NormalizedAs(out, f) ==
    /\ out.fid = getFilterMeaAggKey(f)
    /\ out.rule.type = f.rule[1].type
    /\ out.rule.type \in {"one of", "not in"} => out.rule.value = f.rule[1].value
    /\ out.rule.type \in {"range", "temporal range"} =>
           /\ Len(out.rule.value) = 2
           /\ \A i \in 1..2 : out.rule.value[i].t = "number"
    /\ out.rule.type \notin {"one of", "not in", "range", "temporal range"} =>
           out.rule = f.rule[1]

\* slot holds exactly the filters routed, normalized and in their order, and
\* is absent when there is none
Routes(slot, routed, present) ==
    /\ slot # None <=> (present /\ Len(routed) > 0)
    /\ slot # None =>
          /\ slot[1].type = "filter"
          /\ Len(slot[1].filters) = Len(routed)
          /\ \A i \in 1..Len(routed) : NormalizedAs(slot[1].filters[i], routed[i])

SlotSize(slot) == IF slot = None THEN 0 ELSE Len(slot[1].filters)

\* C4: the filter step before the transform holds exactly the filters with a
\* rule that are neither computed nor enableAgg; the one between transform and
\* view exactly those with a rule that are computed and not enableAgg; the one
\* after the view exists iff the view aggregates, a view dimension exists and
\* some filter has enableAgg, an aggregation function and a rule, and holds
\* exactly those; no filter is in two steps, a filter without a rule in none.
C4_FilterRouting ==
    pc = "done" =>
        /\ Routes(slots.filterWorkflow,
                  SelectSeq(args.viewFilters,
                            LAMBDA f : f.rule # None /\ ~f.computed /\ ~f.enableAgg),
                  TRUE)
        /\ Routes(slots.computedWorkflow,
                  SelectSeq(args.viewFilters,
                            LAMBDA f : f.rule # None /\ f.computed /\ ~f.enableAgg),
                  TRUE)
        /\ Routes(slots.aggFilterWorkflow,
                  SelectSeq(args.viewFilters, AggScoped),
                  ViewQuery.op = "aggregate" /\ Len(locals.viewDimensions) > 0)
        /\ SlotSize(slots.filterWorkflow) + SlotSize(slots.computedWorkflow)
              + SlotSize(slots.aggFilterWorkflow)
           <= Cardinality({i \in 1..Len(args.viewFilters) : args.viewFilters[i].rule # None})
        /\ query.workflow = slots.filterWorkflow \o slots.transformWorkflow
                              \o slots.computedWorkflow \o slots.viewQueryWorkflow
                              \o slots.aggFilterWorkflow \o slots.sortWorkflow

\* all three filter steps at once, around a transform step
C4_Witness ==
    /\ pc = "done"
    /\ slots.filterWorkflow # None /\ slots.transformWorkflow # None
    /\ slots.computedWorkflow # None /\ slots.aggFilterWorkflow # None
    /\ \E f \in Range(args.viewFilters) : f.rule = None

\* C5 (as claimed): the output has a sort step iff the direction is not
\* 'none' and the limit argument is a positive number.
C5_SortIffPositiveLimit ==
    pc = "done" =>
        (slots.sortWorkflow # None <=>
            (locals.sort # "none" /\ locals.limit # None /\ locals.limit[1] > 0))

\* what the code does: any limit other than absent, 0 and -1 gives the step
C5_SortUnlessSentinel ==
    pc = "done" =>
        (slots.sortWorkflow # None <=>
            (locals.sort # "none" /\ locals.limit # None /\ locals.limit[1] \notin {0, -1}))

Resolves(k) == \E i \in 1..Len(args.allFields) : args.allFields[i].fid = k

FirstField(k) ==
    args.allFields[CHOOSE i \in 1..Len(args.allFields) :
                      /\ args.allFields[i].fid = k
                      /\ \A j \in 1..(i - 1) : args.allFields[j].fid # k]

Content(x) == [fid |-> x.fid, analyticType |-> x.analyticType, aggName |-> x.aggName]

BothSentinels ==
    /\ \E x \in Range(args.viewDimensionsRaw) : x.fid = MEA_KEY_ID
    /\ \E x \in Range(args.viewMeasuresRaw) : x.fid = MEA_VAL_ID

SentinelAgg ==
    LET ms == SelectSeq(args.viewMeasuresRaw, LAMBDA x : x.fid = MEA_VAL_ID) IN ms[1].aggName

\* the field of fold identifier k, with the sentinel measure's aggregation
\* function, is in the list of its own analytic role
FoldFieldPlaced(k) ==
    LET x == [Content(FirstField(k)) EXCEPT !.aggName = SentinelAgg]
    IN /\ x.analyticType = "dimension" =>
             \E y \in Range(locals.viewDimensions) : Content(y) = x
       /\ x.analyticType = "measure" =>
             \E y \in Range(locals.viewMeasures) : Content(y) = x

\* every field of the view lists comes from the raw lists or from a fold
\* identifier that resolves
OnlyFoldFieldsAdded(foldIds) ==
    /\ \A y \in Range(locals.viewDimensions) :
          \/ \E x \in Range(args.viewDimensionsRaw) : x = y /\ x.fid # MEA_KEY_ID
          \/ \E k \in foldIds : Resolves(k) /\ y.fid = k /\ y.analyticType = "dimension"
    /\ \A y \in Range(locals.viewMeasures) :
          \/ \E x \in Range(args.viewMeasuresRaw) : x = y /\ x.fid # MEA_VAL_ID
          \/ \E k \in foldIds : Resolves(k) /\ y.fid = k /\ y.analyticType = "measure"

ViewFids == {x.fid : x \in Range(locals.viewDimensions) \cup Range(locals.viewMeasures)}

\* C8 (as claimed): with both sentinels present the view lists hold neither
\* sentinel and hold every fold field that resolves, with the sentinel
\* measure's aggregation function, under its own role; an identifier that
\* does not resolve adds nothing; with one sentinel only, no fold field is added.
C8_FoldRemovesSentinels ==
    pc = "done" =>
        /\ BothSentinels =>
              /\ MEA_KEY_ID \notin ViewFids /\ MEA_VAL_ID \notin ViewFids
              /\ \A k \in Range(args.folds) : Resolves(k) => FoldFieldPlaced(k)
              /\ OnlyFoldFieldsAdded(Range(args.folds))
        /\ ~BothSentinels => OnlyFoldFieldsAdded({})

\* C8 (amended): with both sentinels present the view lists hold no sentinel
\* of the raw lists: the only sentinel they can hold is one that the fold list
\* itself names and allFields resolves; they hold every fold field that
\* resolves, with the sentinel measure's aggregation function, under its own
\* role; an identifier that does not resolve adds nothing; with one sentinel
\* only, both sentinels are dropped and no fold field is added.
C8_FoldExpansion ==
    pc = "done" =>
        /\ BothSentinels =>
              /\ \A s \in {MEA_KEY_ID, MEA_VAL_ID} :
                    s \in ViewFids => (s \in Range(args.folds) /\ Resolves(s))
              /\ \A k \in Range(args.folds) : Resolves(k) => FoldFieldPlaced(k)
              /\ OnlyFoldFieldsAdded(Range(args.folds))
              /\ Len(locals.viewDimensions) + Len(locals.viewMeasures) =
                    Len(args.viewDimensionsRaw) + Len(args.viewMeasuresRaw)
                    - Cardinality({i \in 1..Len(args.viewDimensionsRaw) :
                                      args.viewDimensionsRaw[i].fid = MEA_KEY_ID})
                    - Cardinality({i \in 1..Len(args.viewMeasuresRaw) :
                                      args.viewMeasuresRaw[i].fid = MEA_VAL_ID})
                    + Cardinality({i \in 1..Len(args.folds) : Resolves(args.folds[i])})
        /\ ~BothSentinels =>
              /\ OnlyFoldFieldsAdded({})
              /\ MEA_KEY_ID \notin ViewFids /\ MEA_VAL_ID \notin ViewFids

\* a dimension and a measure folded in, an unresolved identifier dropped
C8_Witness ==
    /\ pc = "done" /\ BothSentinels
    /\ args.folds = <<"d1", "zz">>
    /\ \E y \in Range(locals.viewDimensions) : y.fid = "d1" /\ y.aggName = "sum"
    /\ MEA_KEY_ID \notin ViewFids /\ MEA_VAL_ID \notin ViewFids

NoDuplicates(s) == \A i, j \in 1..Len(s) : s[i] = s[j] => i = j

\* C10: when the view aggregates, every key of the sort step and every fid of
\* the filter step after the view is the asFieldKey of an aggregate measure,
\* no two aggregate measures share an asFieldKey and groupBy has no
\* duplicate; when the view is raw, every key of the sort step is in the raw
\* field list.
C10_ReferenceIntegrity ==
    pc = "done" =>
        IF ViewQuery.op = "aggregate"
        THEN LET keys == [i \in 1..Len(ViewQuery.measures) |-> ViewQuery.measures[i].asFieldKey]
             IN /\ slots.sortWorkflow # None =>
                      Range(slots.sortWorkflow[1].by) \subseteq Range(keys)
                /\ slots.aggFilterWorkflow # None =>
                      \A f \in Range(slots.aggFilterWorkflow[1].filters) : f.fid \in Range(keys)
                /\ NoDuplicates(keys)
                /\ NoDuplicates(ViewQuery.groupBy)
        ELSE /\ slots.aggFilterWorkflow = None
             /\ slots.sortWorkflow # None =>
                   Range(slots.sortWorkflow[1].by) \subseteq Range(ViewQuery.fields)

\* an aggregate view whose measure list was de-duplicated, followed by a
\* filter step and a sort step
C10_Witness ==
    /\ pc = "done" /\ ViewQuery.op = "aggregate"
    /\ slots.sortWorkflow # None /\ slots.aggFilterWorkflow # None
    /\ Len(locals.viewMeasures) = 2 /\ Len(ViewQuery.measures) = 1
    /\ Len(locals.viewDimensions) = 2 /\ Len(ViewQuery.groupBy) = 1

\* ------------------------------------------------------ the merge operations

\* findIndex(x => x.type === kind): the first index, 0 when there is none
FindIndex(workflow, kind) ==
    IF \E i \in 1..Len(workflow) : workflow[i].type = kind
    THEN CHOOSE i \in 1..Len(workflow) :
            /\ workflow[i].type = kind
            /\ \A j \in 1..(i - 1) : workflow[j].type # kind
    ELSE 0

\* a faulty variant of addTransformForQuery: the new entries are appended without
\* looking at the keys the step already has
addTransformNoDedup(q, transform) ==
    IF Len(transform) = 0 THEN q
    ELSE LET existTransform == FindIndex(q.workflow, "transform")
         IN IF existTransform > 0
            THEN [q EXCEPT !.workflow[existTransform] =
                     [type |-> "transform", transform |-> @.transform \o transform]]
            ELSE [q EXCEPT !.workflow =
                     <<[type |-> "transform", transform |-> transform]>> \o @]

addTransformForQuery(q, transform) ==
    IF Len(transform) = 0 THEN q
    ELSE LET existTransform == FindIndex(q.workflow, "transform")
         IN IF existTransform > 0
            THEN [q EXCEPT !.workflow =
                     [i \in 1..Len(q.workflow) |->
                         LET x == q.workflow[i]
                         IN IF x.type = "transform" /\ i = existTransform
                            THEN LET transforms == {t.key : t \in Range(x.transform)}
                                 IN [type |-> "transform",
                                     transform |->
                                         x.transform \o
                                         SelectSeq(transform, LAMBDA t : t.key \notin transforms)]
                            ELSE x]]
            ELSE [q EXCEPT !.workflow =
                     <<[type |-> "transform", transform |-> transform]>> \o @]

\* a faulty variant of addFilterForQuery: the new filters go behind the existing ones
addFilterAppended(q, fs) ==
    IF Len(fs) = 0 THEN q
    ELSE LET existFilter == FindIndex(q.workflow, "filter")
         IN IF existFilter > 0
            THEN [q EXCEPT !.workflow[existFilter] =
                     [type |-> "filter", filters |-> @.filters \o fs]]
            ELSE [q EXCEPT !.workflow = <<[type |-> "filter", filters |-> fs]>> \o @]

\* a faulty variant of addFilterForQuery: a new filter step is added in every case
addFilterNewStep(q, fs) ==
    IF Len(fs) = 0 THEN q
    ELSE [q EXCEPT !.workflow = <<[type |-> "filter", filters |-> fs]>> \o @]

addFilterForQuery(q, fs) ==
    IF Len(fs) = 0 THEN q
    ELSE LET existFilter == FindIndex(q.workflow, "filter")
         IN IF existFilter > 0
            THEN [q EXCEPT !.workflow =
                     [i \in 1..Len(q.workflow) |->
                         LET x == q.workflow[i]
                         IN IF x.type = "filter" /\ i = existFilter
                            THEN [type |-> "filter", filters |-> fs \o x.filters]
                            ELSE x]]
            ELSE [q EXCEPT !.workflow = <<[type |-> "filter", filters |-> fs]>> \o @]

Transform(k, e) == [key |-> k, expression |-> e]

NewTransforms ==
    { <<>>,
      <<Transform("c1", Expr("one", <<>>))>>,
      <<Transform("x", Expr("one", <<>>)), Transform("c1", Expr("one", <<>>))>>,
      <<Transform("x", Expr("one", <<>>)), Transform("x", Expr("log", <<FieldParam("c2")>>))>> }

VisFilter(fid, rule) == [fid |-> fid, rule |-> rule]

NewFilters ==
    { <<>>,
      <<VisFilter("d1", RuleOneOf)>>,
      <<VisFilter("m1_sum", [type |-> "range", value |-> <<Num(1), Num(20)>>]),
        VisFilter("d1", RuleOneOf)>> }

Subsequences(s) ==
    { SelectSeq([i \in 1..Len(s) |-> IF i \in keep THEN Some(s[i]) ELSE None],
                LAMBDA o : o # None) : keep \in SUBSET (1..Len(s)) }

Unwrap(s) == [i \in 1..Len(s) |-> s[i][1]]

MergeArgs ==
    { Args(Unwrap(fs), all, ds, ms, agg, sort, <<>>, <<10>>) :
        fs \in Subsequences(<<PlainFilter, ComputedFilter, AggFilter>>),
        all \in {FieldsFull, FieldsPlain},
        ds \in {<<>>, <<D1>>}, ms \in {<<>>, <<M1>>},
        agg \in BOOLEAN, sort \in {"none", "ascending"} }

AddTransformForQuery ==
    /\ pc = "done"
    /\ ncalls < MaxCalls
    /\ \E transform \in NewTransforms :
          /\ input' = query
          /\ call' = [fn |-> "addTransformForQuery", arg |-> transform]
          /\ query' = addTransformForQuery(query, transform)
    /\ ncalls' = ncalls + 1
    /\ UNCHANGED <<pc, computedFieldsIn, viewKeysIn, shaken, expIn, expOut, args,
                   locals, slots>>

AddFilterForQuery ==
    /\ pc = "done"
    /\ ncalls < MaxCalls
    /\ \E fs \in NewFilters :
          /\ input' = query
          /\ call' = [fn |-> "addFilterForQuery", arg |-> fs]
          /\ query' = addFilterForQuery(query, fs)
    /\ ncalls' = ncalls + 1
    /\ UNCHANGED <<pc, computedFieldsIn, viewKeysIn, shaken, expIn, expOut, args,
                   locals, slots>>

InitMerge == InitWith(MergeArgs)

NextMerge == ToWorkflow \/ ChartToWorkflow \/ AddTransformForQuery \/ AddFilterForQuery

SpecMerge == InitMerge /\ [][NextMerge]_vars

\* ------------------------------------------------ claims on the merged query

Kinds(workflow) == [i \in 1..Len(workflow) |-> workflow[i].type]

RECURSIVE IsSubsequence(_, _)
IsSubsequence(s, t) ==
    IF s = <<>> THEN TRUE
    ELSE IF t = <<>> THEN FALSE
    ELSE IF Head(s) = Head(t) THEN IsSubsequence(Tail(s), Tail(t))
    ELSE IsSubsequence(s, Tail(t))

Count(s, x) == Cardinality({i \in 1..Len(s) : s[i] = x})

StepOrder == <<"filter", "transform", "filter", "view", "filter", "sort">>

\* C3 (as claimed): the kinds of the steps of toWorkflow's output, and of every
\* workflow made from it by addTransformForQuery and addFilterForQuery, are a
\* subsequence of [filter, transform, filter, view, filter, sort].
C3_StepOrder ==
    pc = "done" => IsSubsequence(Kinds(query.workflow), StepOrder)

\* C3 (amended): toWorkflow's output is a subsequence of [filter, transform,
\* filter, view, filter, sort], and so is every workflow merged from it, with
\* one exception: when toWorkflow emitted both filter steps that precede the
\* view and no transform step, a transform step added by addTransformForQuery
\* stands in front of both, and the kinds are a subsequence of [transform,
\* filter, filter, view, filter, sort].  In every case there is exactly one
\* view step, at most one transform step and at most one sort step.
C3_StepOrderMerged ==
    pc = "done" =>
        LET kinds == Kinds(query.workflow)
            twoFilters == /\ slots.filterWorkflow # None /\ slots.computedWorkflow # None
                          /\ slots.transformWorkflow = None
        IN /\ ncalls = 0 => IsSubsequence(kinds, StepOrder)
           /\ ~twoFilters => IsSubsequence(kinds, StepOrder)
           /\ twoFilters =>
                 \/ IsSubsequence(kinds, StepOrder)
                 \/ IsSubsequence(kinds, <<"transform", "filter", "filter", "view", "filter", "sort">>)
           /\ Count(kinds, "view") = 1
           /\ Count(kinds, "transform") <= 1
           /\ Count(kinds, "sort") <= 1

\* a transform merged in front of the two filter steps that precede the view
C3_Witness ==
    /\ pc = "done" /\ ncalls = 2
    /\ Len(query.workflow) >= 4
    /\ SubSeq(Kinds(query.workflow), 1, 4) = <<"transform", "filter", "filter", "view">>
    /\ call.fn = "addFilterForQuery" /\ Len(call.arg) > 0

Keys(ts) == {t.key : t \in Range(ts)}

EntriesOf(ts, k) == SelectSeq(ts, LAMBDA t : t.key = k)

\* the result of addTransformForQuery but for the number of entries of a key
MergedTransform ==
    LET i == FindIndex(input.workflow, "transform")
    IN IF call.arg = <<>> THEN query = input
       ELSE IF i > 0
       THEN /\ Len(query.workflow) = Len(input.workflow)
            /\ \A j \in 1..Len(input.workflow) : j # i => query.workflow[j] = input.workflow[j]
            /\ query.workflow[i].type = "transform"
            /\ query.workflow[i].transform =
                  input.workflow[i].transform \o
                  SelectSeq(call.arg, LAMBDA t : t.key \notin Keys(input.workflow[i].transform))
            /\ query.limit = input.limit
       ELSE /\ query.workflow = <<[type |-> "transform", transform |-> call.arg] >>
                                 \o input.workflow
            /\ query.limit = input.limit

\* C6 (as claimed): addTransformForQuery appends to the existing transform
\* step the new entries whose key it does not have, so a key already present
\* keeps exactly one entry, the original one; without a transform step it
\* puts a step holding newTransforms in front; empty newTransforms change nothing.
C6_KeyKeepsOneEntry ==
    (pc = "done" /\ ncalls > 0 /\ call.fn = "addTransformForQuery") =>
        /\ MergedTransform
        /\ LET i == FindIndex(input.workflow, "transform")
           IN (call.arg # <<>> /\ i > 0) =>
                 \A k \in Keys(input.workflow[i].transform) :
                    /\ Len(EntriesOf(query.workflow[i].transform, k)) = 1
                    /\ EntriesOf(query.workflow[i].transform, k)[1]
                          = EntriesOf(input.workflow[i].transform, k)[1]

\* C6 (amended): as claimed, but a key already present gains no entry: its
\* entries in the result are exactly its entries in the existing step (one
\* entry when the step had one; newTransforms may have put two there before).
C6_MergeTransform ==
    (pc = "done" /\ ncalls > 0 /\ call.fn = "addTransformForQuery") =>
        /\ MergedTransform
        /\ LET i == FindIndex(input.workflow, "transform")
           IN (call.arg # <<>> /\ i > 0) =>
                 \A k \in Keys(input.workflow[i].transform) :
                    EntriesOf(query.workflow[i].transform, k)
                       = EntriesOf(input.workflow[i].transform, k)

\* a key of the existing step offered again with another expression, beside a new key
C6_Witness ==
    /\ pc = "done" /\ ncalls > 0 /\ call.fn = "addTransformForQuery"
    /\ FindIndex(input.workflow, "transform") = 2
    /\ Keys(input.workflow[2].transform) = {"c1"}
    /\ Keys(call.arg) = {"x", "c1"}
    /\ Len(query.workflow[2].transform) = 2
    /\ query.workflow[2].transform[1] = input.workflow[2].transform[1]
    /\ query.workflow[2].transform[1] \notin Range(call.arg)

\* C7: with non-empty newFilters addFilterForQuery changes only the first
\* filter step, which becomes newFilters followed by its previous filters,
\* every other step, the number of steps and the limit staying as they were;
\* without a filter step it puts a step holding newFilters in front of the
\* unchanged steps.
C7_MergeFilter ==
    (pc = "done" /\ ncalls > 0 /\ call.fn = "addFilterForQuery") =>
        IF call.arg = <<>> THEN query = input
        ELSE IF \E j \in 1..Len(input.workflow) : input.workflow[j].type = "filter"
        THEN \E i \in 1..Len(input.workflow) :
                /\ input.workflow[i].type = "filter"
                /\ \A j \in 1..(i - 1) : input.workflow[j].type # "filter"
                /\ Len(query.workflow) = Len(input.workflow)
                /\ \A j \in 1..Len(input.workflow) : j # i => query.workflow[j] = input.workflow[j]
                /\ query.workflow[i] =
                      [type |-> "filter", filters |-> call.arg \o input.workflow[i].filters]
                /\ query.limit = input.limit
        ELSE /\ query.workflow = <<[type |-> "filter", filters |-> call.arg] >> \o input.workflow
             /\ query.limit = input.limit

\* two filters put in front of a filter they were put in front of before, a
\* later filter step left alone
C7_Witness ==
    /\ pc = "done" /\ ncalls = 2 /\ call.fn = "addFilterForQuery"
    /\ Len(call.arg) = 2
    /\ Count(Kinds(input.workflow), "filter") >= 2
    /\ input.workflow[1].type = "filter"
    /\ Len(query.workflow[1].filters) = Len(input.workflow[1].filters) + 2
    /\ query.workflow[1].filters[3] = call.arg[2]

====
